---- MODULE Spec2Model ----
(***************************************************************************)
(* Model of retail_dashb.py: a Streamlit script that loads the RETAIL_SALES *)
(* table through a cache with a time-to-live, filters it by the sidebar     *)
(* widgets, and computes KPIs, grouped aggregations and text insights.      *)
(*                                                                          *)
(* A DataFrame is a sequence of records (rows in index order).  None is     *)
(* the empty tuple and a returned value v is <<v>>.  A float is a record    *)
(* [k, n, d]: the exact rational n/d (d > 0) when k = "fin", or one of the  *)
(* IEEE values nan, inf, ninf; binary rounding of finite values is not      *)
(* modelled.  A timestamp is an integer count of ticks, TicksPerDay ticks   *)
(* to the calendar day, day 0 being a Monday.                               *)
(***************************************************************************)
EXTENDS Integers, Sequences, FiniteSets, TLC

VARIABLES clock, cache, lastFetch,
          pc, retail_data, date_range, selected_categories, selected_genders,
          filtered_data, df, kpis, snapshot, category_sales, weekday_sales,
          gender_sales, age_sales, top_trans, bottom_trans, insights,
          shown, executed

vars == <<clock, cache, lastFetch, pc, retail_data, date_range,
          selected_categories, selected_genders, filtered_data, df, kpis,
          snapshot, category_sales, weekday_sales, gender_sales, age_sales,
          top_trans, bottom_trans, insights, shown, executed>>

(* ------------------------------- bounds -------------------------------- *)
TicksPerDay == 2
MaxRows == 2
MaxTopRows == 6
MaxClock == 400

(* -------------------------- program constants -------------------------- *)
TTL == 300
TopN == 5
LowMargin == 20
HighMargin == 40
age_bins == <<0, 25, 35, 45, 55, 100>>
age_labels == <<"18-25", "26-35", "36-45", "46-55", "55+">>
WeekOrder == <<"Monday", "Tuesday", "Wednesday", "Thursday", "Friday",
               "Saturday", "Sunday">>

(* pandas sorts group keys: the lexicographic order of the key strings *)
SortedWeekDays == <<"Friday", "Monday", "Saturday", "Sunday", "Thursday",
                    "Tuesday", "Wednesday">>
SortedCategories == <<"Beauty", "Clothing", "Electronics">>
SortedGenders == <<"Female", "Male">>

(* a NULL customer_id, which nunique() does not count *)
NullId == -1

None == <<>>
Some(v) == <<v>>

Min2(a, b) == IF a <= b THEN a ELSE b
Range(s) == {s[i] : i \in 1..Len(s)}
SeqsUpTo(S, n) == UNION {[1..k -> S] : k \in 0..n}

(* ------------------------------- floats -------------------------------- *)
Fin(n, d) == [k |-> "fin", n |-> n, d |-> d]
NaN == [k |-> "nan", n |-> 0, d |-> 1]
PInf == [k |-> "inf", n |-> 0, d |-> 1]
NInf == [k |-> "ninf", n |-> 0, d |-> 1]

IsFinite(x) == x.k = "fin"
IsZero(x) == x.k = "fin" /\ x.n = 0

(* a / b on numpy numbers: x/0 is nan or +-inf, never an exception *)
TrueDiv(a, b) ==
    IF b = 0
    THEN IF a = 0 THEN NaN ELSE IF a > 0 THEN PInf ELSE NInf
    ELSE IF b > 0 THEN Fin(a, b) ELSE Fin(-a, -b)

(* x * c for an integer c > 0 *)
Scale(x, c) == IF x.k = "fin" THEN Fin(x.n * c, x.d) ELSE x

FAdd(x, y) ==
    IF x.k = "nan" \/ y.k = "nan" THEN NaN
    ELSE IF x.k = "fin" /\ y.k = "fin" THEN Fin(x.n * y.d + y.n * x.d, x.d * y.d)
    ELSE IF x.k = "fin" THEN y
    ELSE IF y.k = "fin" THEN x
    ELSE IF x.k = y.k THEN x ELSE NaN

(* x / c for an integer count c > 0 *)
FDivInt(x, c) == IF x.k = "fin" THEN Fin(x.n, x.d * c) ELSE x

(* comparisons with an integer; every comparison with nan is False *)
FLess(x, c) == x.k = "ninf" \/ (x.k = "fin" /\ x.n < c * x.d)
FGreater(x, c) == x.k = "inf" \/ (x.k = "fin" /\ x.n > c * x.d)

RECURSIVE SumInt(_)
SumInt(s) == IF s = <<>> THEN 0 ELSE s[1] + SumInt(Tail(s))

RECURSIVE SumFloat(_)
SumFloat(s) == IF s = <<>> THEN Fin(0, 1) ELSE FAdd(s[1], SumFloat(Tail(s)))

Column(rows, f) == [i \in 1..Len(rows) |-> rows[i][f]]

(* Series.mean(): NaN entries are skipped; the mean of nothing is NaN *)
MeanFloat(s) ==
    LET kept == SelectSeq(s, LAMBDA x : x.k # "nan")
    IN  IF kept = <<>> THEN NaN ELSE FDivInt(SumFloat(kept), Len(kept))

MeanInt(s) == TrueDiv(SumInt(s), Len(s))

(* ----------------------------- preprocessing --------------------------- *)
DateOf(ts) == ts \div TicksPerDay
DayName(ts) == WeekOrder[(DateOf(ts) % 7) + 1]

RowProfitMargin(total_sale, cogs) == Scale(TrueDiv(total_sale - cogs, total_sale), 100)

PreprocessRow(r) ==
    [transaction_id |-> r.transaction_id, sale_date |-> r.sale_date,
     customer_id |-> r.customer_id, gender |-> r.gender, age |-> r.age,
     category |-> r.category, total_sale |-> r.total_sale, cogs |-> r.cogs,
     week_day |-> DayName(r.sale_date),
     profit |-> r.total_sale - r.cogs,
     profit_margin |-> RowProfitMargin(r.total_sale, r.cogs)]

Preprocess(table) == [i \in 1..Len(table) |-> PreprocessRow(table[i])]

(* a table of the data source: transaction_id is the row's position *)
RawRow(ts, cust, g, a, cat, sale, cg) ==
    [sale_date |-> ts, customer_id |-> cust, gender |-> g, age |-> a,
     category |-> cat, total_sale |-> sale, cogs |-> cg]

MkTable(raws) ==
    [i \in 1..Len(raws) |->
        [transaction_id |-> i, sale_date |-> raws[i].sale_date,
         customer_id |-> raws[i].customer_id, gender |-> raws[i].gender,
         age |-> raws[i].age, category |-> raws[i].category,
         total_sale |-> raws[i].total_sale, cogs |-> raws[i].cogs]]

Loaded(raws) == Preprocess(MkTable(raws))

(* ----------------------- sorting and group-by -------------------------- *)
(* stable argsort (kind="mergesort"): indices by ascending key, equal keys *)
(* in index order                                                          *)
RECURSIVE InsertIdx(_, _, _)
InsertIdx(s, i, keys) ==
    IF s = <<>> THEN <<i>>
    ELSE IF keys[s[Len(s)]] <= keys[i] THEN Append(s, i)
    ELSE Append(InsertIdx(SubSeq(s, 1, Len(s) - 1), i, keys), s[Len(s)])

RECURSIVE ArgSortUpTo(_, _)
ArgSortUpTo(keys, n) ==
    IF n = 0 THEN <<>> ELSE InsertIdx(ArgSortUpTo(keys, n - 1), n, keys)

ArgSort(keys) == ArgSortUpTo(keys, Len(keys))

Negated(keys) == [i \in 1..Len(keys) |-> -keys[i]]
Take(rows, idx) == [j \in 1..Len(idx) |-> rows[idx[j]]]
HeadN(rows, n) == SubSeq(rows, 1, Min2(n, Len(rows)))

(* df.groupby(kf)['total_sale'].sum(): one entry per key present, keys sorted *)
GroupBySum(rows, kf, sortedKeys) ==
    LET present == SelectSeq(sortedKeys,
                             LAMBDA k : \E i \in 1..Len(rows) : rows[i][kf] = k)
    IN  [j \in 1..Len(present) |->
            [key |-> present[j],
             value |-> Fin(SumInt(Column(SelectSeq(rows,
                                 LAMBDA r : r[kf] = present[j]), "total_sale")), 1)]]

(* Series.reindex(labels): one entry per label, NaN where the key is absent *)
Reindex(groups, labels) ==
    [j \in 1..Len(labels) |->
        IF \E i \in 1..Len(groups) : groups[i].key = labels[j]
        THEN groups[CHOOSE i \in 1..Len(groups) : groups[i].key = labels[j]]
        ELSE [key |-> labels[j], value |-> NaN]]

(* Series.sort_values() sorts with kind="quicksort", which is not stable: *)
(* every order of the indices that is sorted by key is a possible result *)
SortedOrders(keys) ==
    {p \in [1..Len(keys) -> 1..Len(keys)] :
        /\ \A i \in 1..Len(keys), j \in 1..Len(keys) : i # j => p[i] # p[j]
        /\ \A i \in 1..Len(keys), j \in 1..Len(keys) :
               i < j => keys[p[i]] <= keys[p[j]]}

(* Series.sort_values(ascending=False): the possible results *)
SortValuesDesc(groups) ==
    {Take(groups, p) :
        p \in SortedOrders(Negated([i \in 1..Len(groups) |-> groups[i].value.n]))}

(* Series.idxmax() / max() of a non-empty group sum: first position of the maximum *)
IdxMax(groups) ==
    CHOOSE i \in 1..Len(groups) :
        /\ \A j \in 1..Len(groups) : groups[j].value.n <= groups[i].value.n
        /\ \A j \in 1..(i - 1) : groups[j].value.n < groups[i].value.n

(* ------------------------------- filter -------------------------------- *)
(* the boolean mask of lines 188-191, then boolean indexing *)
(* variant: a start date that excludes its own day *)
DateMaskFromStrict(rows, d) == [i \in 1..Len(rows) |-> DateOf(rows[i].sale_date) > d]
DateMaskFrom(rows, d) == [i \in 1..Len(rows) |-> DateOf(rows[i].sale_date) >= d]
(* variant: the timestamp, not its calendar date, against the end date *)
DateMaskToStamp(rows, d) == [i \in 1..Len(rows) |-> rows[i].sale_date <= d * TicksPerDay]
DateMaskTo(rows, d) == [i \in 1..Len(rows) |-> DateOf(rows[i].sale_date) <= d]
IsIn(rows, f, selected) == [i \in 1..Len(rows) |-> rows[i][f] \in selected]

RECURSIVE BoolIndex(_, _)
BoolIndex(rows, mask) ==
    IF rows = <<>> THEN <<>>
    ELSE IF mask[1]
         THEN <<rows[1]>> \o BoolIndex(Tail(rows), Tail(mask))
         ELSE BoolIndex(Tail(rows), Tail(mask))

FilterRows(rows, dr, cats, gens) ==
    LET m1 == DateMaskFrom(rows, dr[1])
        m2 == DateMaskTo(rows, dr[2])
        m3 == IsIn(rows, "category", cats)
        m4 == IsIn(rows, "gender", gens)
    IN  BoolIndex(rows, [i \in 1..Len(rows) |-> m1[i] /\ m2[i] /\ m3[i] /\ m4[i]])

MinStamp(rows) == CHOOSE t \in Range(Column(rows, "sale_date")) :
                      \A u \in Range(Column(rows, "sale_date")) : t <= u
MaxStamp(rows) == CHOOSE t \in Range(Column(rows, "sale_date")) :
                      \A u \in Range(Column(rows, "sale_date")) : u <= t

(* the widgets' defaults: lines 160-161, 171, 179 *)
min_date(rows) == DateOf(MinStamp(rows))
max_date(rows) == DateOf(MaxStamp(rows))
category_list(rows) == Range(Column(rows, "category"))
gender_list(rows) == Range(Column(rows, "gender"))

(* -------------------------------- KPIs --------------------------------- *)
NUnique(rows, f) == Cardinality(Range(Column(rows, f)) \ {NullId})

(* (max - min).days + 1 *)
DateRangeDays(rows) == ((MaxStamp(rows) - MinStamp(rows)) \div TicksPerDay) + 1

KpiProfitMargin(rows) ==
    Scale(TrueDiv(SumInt(Column(rows, "profit")), SumInt(Column(rows, "total_sale"))), 100)

KpiAvgRevenuePerCustomer(rows) ==
    TrueDiv(SumInt(Column(rows, "total_sale")), NUnique(rows, "customer_id"))

KpiSet(rows) ==
    [total_revenue |-> SumInt(Column(rows, "total_sale")),
     total_transactions |-> Len(rows),
     avg_transaction |-> MeanInt(Column(rows, "total_sale")),
     total_profit |-> SumInt(Column(rows, "profit")),
     profit_margin |-> KpiProfitMargin(rows),
     unique_customers |-> NUnique(rows, "customer_id"),
     avg_revenue_per_customer |-> KpiAvgRevenuePerCustomer(rows),
     date_range_days |-> DateRangeDays(rows)]

(* variant: an all-zero KPI set for an empty dataset *)
calculate_kpisZeroSet(d) ==
    IF d = None THEN None
    ELSE IF d[1] = <<>>
         THEN Some([total_revenue |-> 0, total_transactions |-> 0,
                    avg_transaction |-> Fin(0, 1), total_profit |-> 0,
                    profit_margin |-> Fin(0, 1), unique_customers |-> 0,
                    avg_revenue_per_customer |-> Fin(0, 1), date_range_days |-> 0])
         ELSE Some(KpiSet(d[1]))

calculate_kpis(d) ==
    IF d = None \/ d[1] = <<>> THEN None ELSE Some(KpiSet(d[1]))

(* the inline computation of the executive snapshot, lines 206-218 *)
gross_profit_margin(total_profit, total_revenue) ==
    IF total_revenue # 0 THEN Scale(TrueDiv(total_profit, total_revenue), 100)
    ELSE Fin(0, 1)

avg_revenue_per_customer(total_revenue, unique_customers) ==
    IF unique_customers > 0 THEN TrueDiv(total_revenue, unique_customers)
    ELSE Fin(0, 1)

ExecutiveKpis(rows) ==
    LET total_revenue == SumInt(Column(rows, "total_sale"))
        total_profit == SumInt(Column(rows, "profit"))
        unique_customers == NUnique(rows, "customer_id")
        by_cat == GroupBySum(rows, "category", SortedCategories)
    IN  [total_revenue |-> total_revenue,
         total_cogs |-> SumInt(Column(rows, "cogs")),
         total_profit |-> total_profit,
         avg_transaction |-> MeanInt(Column(rows, "total_sale")),
         gross_profit_margin |-> gross_profit_margin(total_profit, total_revenue),
         total_transactions |-> Len(rows),
         unique_customers |-> unique_customers,
         avg_revenue_per_customer |->
             avg_revenue_per_customer(total_revenue, unique_customers),
         avg_profit_per_transaction |-> MeanInt(Column(rows, "profit")),
         top_category |-> by_cat[IdxMax(by_cat)].key,
         top_category_revenue |-> by_cat[IdxMax(by_cat)].value,
         date_range_days |-> DateRangeDays(rows)]

(* ----------------------------- aggregations ---------------------------- *)
(* variant: the groups' row counts in place of their total_sale sums *)
CategorySalesCount(rows) ==
    LET g == GroupBySum(rows, "category", SortedCategories)
        counted == [j \in 1..Len(g) |->
                       [key |-> g[j].key,
                        value |-> Fin(Len(SelectSeq(rows,
                                      LAMBDA r : r.category = g[j].key)), 1)]]
    IN  SortValuesDesc(counted)

CategorySales(rows) == SortValuesDesc(GroupBySum(rows, "category", SortedCategories))

(* variant: the group sums without the reindex *)
WeekdaySalesNoReindex(rows) == GroupBySum(rows, "week_day", SortedWeekDays)
WeekdaySales(rows) == Reindex(GroupBySum(rows, "week_day", SortedWeekDays), WeekOrder)

GenderSales(rows) == GroupBySum(rows, "gender", SortedGenders)

(* pd.cut(age, bins=age_bins, labels=age_labels): intervals (lo, hi], and *)
(* the missing value for an age in none of them                           *)
NoGroup == "NaN"
Cut(age) ==
    IF \E i \in 1..Len(age_labels) : age_bins[i] < age /\ age <= age_bins[i + 1]
    THEN age_labels[CHOOSE i \in 1..Len(age_labels) :
                        age_bins[i] < age /\ age <= age_bins[i + 1]]
    ELSE NoGroup

WithAgeGroup(rows) ==
    [i \in 1..Len(rows) |-> rows[i] @@ [age_group |-> Cut(rows[i].age)]]

(* groupby on the categorical column: rows without a group are dropped; an *)
(* unobserved category is a zero sum (observed=False) or absent            *)
(* (observed=True), depending on the pandas release                        *)
GroupByAgeGroup(rows, observed) ==
    LET cats == IF observed
                THEN SelectSeq(age_labels,
                         LAMBDA l : \E i \in 1..Len(rows) : rows[i].age_group = l)
                ELSE age_labels
    IN  [j \in 1..Len(cats) |->
            [key |-> cats[j],
             value |-> Fin(SumInt(Column(SelectSeq(rows,
                             LAMBDA r : r.age_group = cats[j]), "total_sale")), 1)]]

AgeSales(rows, observed) == Reindex(GroupByAgeGroup(rows, observed), age_labels)

(* DataFrame.nlargest / nsmallest(n, column), keep="first": the possible  *)
(* results.  keys are the column for nsmallest and its negation for       *)
(* nlargest.  With n >= len(rows) pandas returns sort_values().head(n);   *)
(* otherwise it takes the rows up to the n-th smallest key, orders them   *)
(* by a stable argsort and keeps the first n.                             *)
SelectN(rows, n, keys) ==
    IF n >= Len(rows)
    THEN {HeadN(Take(rows, p), n) : p \in SortedOrders(keys)}
    ELSE LET kth_val == keys[ArgSort(keys)[n]]
             ns == SelectSeq([i \in 1..Len(rows) |-> i], LAMBDA i : keys[i] <= kth_val)
             order == ArgSort([j \in 1..Len(ns) |-> keys[ns[j]]])
             inds == SubSeq([j \in 1..Len(ns) |-> ns[order[j]]], 1, n)
         IN  {Take(rows, inds)}

TransColumns(rows) ==
    [i \in 1..Len(rows) |->
        [transaction_id |-> rows[i].transaction_id, category |-> rows[i].category,
         total_sale |-> rows[i].total_sale, cogs |-> rows[i].cogs,
         profit |-> rows[i].profit, profit_margin |-> rows[i].profit_margin]]

(* variant: nlargest on the keys of nsmallest *)
NLargestAscending(rows, n, f) == SelectN(rows, n, Column(rows, f))
NLargest(rows, n, f) == SelectN(rows, n, Negated(Column(rows, f)))
NSmallest(rows, n, f) == SelectN(rows, n, Column(rows, f))

TopTrans(rows) == {TransColumns(t) : t \in NLargest(rows, TopN, "profit")}
BottomTrans(rows) == {TransColumns(t) : t \in NSmallest(rows, TopN, "profit")}

(* ------------------------------- insights ------------------------------ *)
Line(text, args) == [text |-> text, args |-> args]

(* variant: thresholds that include 20 and 40 *)
ConditionalInsightInclusive(avg_margin) ==
    IF ~FGreater(avg_margin, LowMargin) /\ avg_margin.k # "nan"
    THEN <<Line("low_margin", <<>>)>>
    ELSE IF ~FLess(avg_margin, HighMargin) /\ avg_margin.k # "nan"
    THEN <<Line("high_margin", <<>>)>>
    ELSE <<>>

ConditionalInsight(avg_margin) ==
    IF FLess(avg_margin, LowMargin) THEN <<Line("low_margin", <<>>)>>
    ELSE IF FGreater(avg_margin, HighMargin) THEN <<Line("high_margin", <<>>)>>
    ELSE <<>>

generate_auto_insights(rows) ==
    IF rows = <<>>
    THEN <<Line("no_data", <<>>)>>
    ELSE LET total_rev == SumInt(Column(rows, "total_sale"))
             by_cat == GroupBySum(rows, "category", SortedCategories)
             by_day == GroupBySum(rows, "week_day", SortedWeekDays)
             avg_margin == MeanFloat(Column(rows, "profit_margin"))
         IN  << Line("total_revenue", <<total_rev>>),
                Line("top_category", <<by_cat[IdxMax(by_cat)].key,
                                       by_cat[IdxMax(by_cat)].value>>),
                Line("best_day", <<by_day[IdxMax(by_day)].key>>),
                Line("avg_margin", <<avg_margin>>) >>
             \o ConditionalInsight(avg_margin)

(* ------------------------------ the cache ------------------------------ *)
(* @st.cache_data(ttl=300): an entry is served while now < stored + ttl *)
(* variant: the cache without its ttl *)
CacheNeverExpires(c, now) == c # None
CacheValid(c, now) == c # None /\ now < c[1].expires

(* the body of load_retail_data for one outcome of the query: None is a   *)
(* connection or query error, Some(t) the table read                      *)
LoadBody(outcome) ==
    IF outcome = None
    THEN [value |-> None, msgs |-> {"Database Connection Failed"}]
    ELSE [value |-> Some(Preprocess(outcome[1])), msgs |-> {"Data loaded"}]

(* variant: the None check of line 152 left out *)
LoadFailedNever(v) == FALSE
LoadFailed(v) == v = None

(* --------------------------- the data source --------------------------- *)
SourceRow1 == RawRow(1, 1, "Male", 30, "Clothing", 100, 60)
SourceRow2 == RawRow(2 * TicksPerDay, 2, "Female", 60, "Beauty", 200, 180)
SourceTables == {MkTable(<<SourceRow1>>), MkTable(<<SourceRow1, SourceRow2>>)}
FetchOutcomes == {None} \cup {Some(t) : t \in SourceTables}

(* seconds that pass between two runs of the script *)
Elapse == {100, 199}

Downstream == {"filter", "snapshot", "trend", "demo", "advanced", "insights"}
Idle == {"done", "stopped", "raised"}

(* ------------------------------- actions ------------------------------- *)
InitCommon ==
    /\ clock = 0 /\ cache = None /\ lastFetch = -1
    /\ kpis = None /\ snapshot = None
    /\ category_sales = <<>> /\ weekday_sales = <<>> /\ gender_sales = <<>>
    /\ age_sales = <<>> /\ top_trans = <<>> /\ bottom_trans = <<>>
    /\ insights = <<>> /\ shown = {}

Init ==
    /\ InitCommon /\ executed = {}
    /\ pc = "load" /\ retail_data = None /\ df = None
    /\ date_range = <<>> /\ selected_categories = {} /\ selected_genders = {}
    /\ filtered_data = <<>>

cacheVars == <<clock, cache, lastFetch>>
widgetVars == <<date_range, selected_categories, selected_genders>>
resultVars == <<snapshot, category_sales, weekday_sales, gender_sales, age_sales,
                top_trans, bottom_trans, insights>>

(* line 150: retail_data = load_retail_data(), through the cache *)
LoadRetailData ==
    /\ pc = "load"
    /\ IF CacheValid(cache, clock)
       THEN /\ retail_data' = cache[1].value
            /\ shown' = shown \cup cache[1].msgs
            /\ UNCHANGED <<cache, lastFetch>>
       ELSE \E outcome \in FetchOutcomes :
              LET r == LoadBody(outcome)
              IN  /\ retail_data' = r.value
                  /\ shown' = shown \cup r.msgs
                  /\ cache' = Some([value |-> r.value, msgs |-> r.msgs,
                                    expires |-> clock + TTL])
                  /\ lastFetch' = clock
    /\ pc' = "check"
    /\ UNCHANGED <<clock, widgetVars, filtered_data, df, kpis, resultVars, executed>>

(* lines 152-154 *)
CheckLoaded ==
    /\ pc = "check"
    /\ IF LoadFailed(retail_data)
       THEN /\ shown' = shown \cup {"Could not load data"}
            /\ pc' = "stopped"
       ELSE /\ pc' = "sidebar"
            /\ UNCHANGED shown
    /\ UNCHANGED <<cacheVars, retail_data, widgetVars, filtered_data, df, kpis,
                   resultVars, executed>>

(* lines 157-184: the widgets return what the user selected *)
SidebarFilters ==
    /\ pc = "sidebar"
    /\ IF retail_data = None
       THEN /\ pc' = "raised"
            /\ UNCHANGED widgetVars
       ELSE LET rows == retail_data[1]
                days == min_date(rows)..max_date(rows)
            IN  /\ date_range' \in {<<a>> : a \in days}
                                     \cup {<<a, b>> : a \in days, b \in days}
                /\ Len(date_range') = 2 => date_range'[1] <= date_range'[2]
                /\ selected_categories' \in SUBSET category_list(rows)
                /\ selected_genders' \in SUBSET gender_list(rows)
                /\ pc' = "filter"
    /\ UNCHANGED <<cacheVars, retail_data, filtered_data, df, kpis, resultVars,
                   shown, executed>>

(* lines 187-199; date_range[1] of a one-date selection raises IndexError *)
FilterData ==
    /\ pc = "filter"
    /\ IF Len(date_range) < 2
       THEN /\ pc' = "raised"
            /\ UNCHANGED <<filtered_data, shown, executed>>
       ELSE /\ filtered_data' = FilterRows(retail_data[1], date_range,
                                           selected_categories, selected_genders)
            /\ shown' = shown \cup {"records match your filters"}
            /\ executed' = executed \cup {"filter"}
            /\ pc' = "snapshot"
    /\ UNCHANGED <<cacheVars, retail_data, widgetVars, df, kpis, resultVars>>

(* lines 202-237 *)
ExecutiveSnapshot ==
    /\ pc = "snapshot"
    /\ IF filtered_data # <<>>
       THEN /\ snapshot' = Some(ExecutiveKpis(filtered_data))
            /\ UNCHANGED shown
       ELSE /\ shown' = shown \cup {"No data for selected filters"}
            /\ UNCHANGED snapshot
    /\ executed' = executed \cup {"snapshot"}
    /\ pc' = "trend"
    /\ UNCHANGED <<cacheVars, retail_data, widgetVars, filtered_data, df, kpis,
                   category_sales, weekday_sales, gender_sales, age_sales,
                   top_trans, bottom_trans, insights>>

(* lines 240-358; the monthly trend feeds a chart only and is not kept *)
SalesTrend ==
    /\ pc = "trend"
    /\ IF filtered_data # <<>>
       THEN /\ category_sales' \in CategorySales(filtered_data)
            /\ weekday_sales' = WeekdaySales(filtered_data)
            /\ UNCHANGED shown
       ELSE /\ shown' = shown \cup {"No data available to display charts"}
            /\ UNCHANGED <<category_sales, weekday_sales>>
    /\ executed' = executed \cup {"trend"}
    /\ pc' = "demo"
    /\ UNCHANGED <<cacheVars, retail_data, widgetVars, filtered_data, df, kpis,
                   snapshot, gender_sales, age_sales, top_trans, bottom_trans,
                   insights>>

(* lines 361-497 *)
Demographics ==
    /\ pc = "demo"
    /\ IF filtered_data # <<>>
       THEN /\ gender_sales' = GenderSales(filtered_data)
            /\ filtered_data' = WithAgeGroup(filtered_data)
            /\ \E observed \in BOOLEAN :
                   age_sales' = AgeSales(filtered_data', observed)
            /\ top_trans' \in TopTrans(filtered_data')
            /\ bottom_trans' \in BottomTrans(filtered_data')
            /\ UNCHANGED shown
       ELSE /\ shown' = shown \cup {"No demographic or profitability data"}
            /\ UNCHANGED <<gender_sales, filtered_data, age_sales, top_trans,
                           bottom_trans>>
    /\ executed' = executed \cup {"demo"}
    /\ pc' = "advanced"
    /\ UNCHANGED <<cacheVars, retail_data, widgetVars, df, kpis, snapshot,
                   category_sales, weekday_sales, insights>>

(* lines 500-621: scatter, heatmap and CSV download; their values go to the *)
(* page only and are not kept                                               *)
AdvancedInsights ==
    /\ pc = "advanced"
    /\ shown' = shown \cup {IF filtered_data # <<>> THEN "Download as CSV"
                            ELSE "No advanced insight data"}
    /\ executed' = executed \cup {"advanced"}
    /\ pc' = "insights"
    /\ UNCHANGED <<cacheVars, retail_data, widgetVars, filtered_data, df, kpis,
                   resultVars>>

(* lines 651-653 *)
AutoInsights ==
    /\ pc = "insights"
    /\ insights' = generate_auto_insights(filtered_data)
    /\ executed' = executed \cup {"insights"}
    /\ pc' = "done"
    /\ UNCHANGED <<cacheVars, retail_data, widgetVars, filtered_data, df, kpis,
                   snapshot, category_sales, weekday_sales, gender_sales,
                   age_sales, top_trans, bottom_trans, shown>>

(* calculate_kpis(df), lines 130-145; the script defines it and never calls it *)
CalculateKpis ==
    /\ "calculate_kpis" \notin executed
    /\ kpis' = calculate_kpis(df)
    /\ executed' = executed \cup {"calculate_kpis"}
    /\ UNCHANGED <<cacheVars, pc, retail_data, widgetVars, filtered_data, df,
                   resultVars, shown>>

(* time passes between two runs of the script *)
Tick ==
    /\ pc \in Idle
    /\ \E d \in Elapse : clock + d <= MaxClock /\ clock' = clock + d
    /\ UNCHANGED <<cache, lastFetch, pc, retail_data, widgetVars, filtered_data,
                   df, kpis, resultVars, shown, executed>>

(* a user interaction reruns the script from the top *)
Rerun ==
    /\ pc \in Idle
    /\ pc' = "load" /\ retail_data' = None
    /\ date_range' = <<>> /\ selected_categories' = {} /\ selected_genders' = {}
    /\ filtered_data' = <<>>
    /\ snapshot' = None
    /\ category_sales' = <<>> /\ weekday_sales' = <<>> /\ gender_sales' = <<>>
    /\ age_sales' = <<>> /\ top_trans' = <<>> /\ bottom_trans' = <<>>
    /\ insights' = <<>> /\ shown' = {} /\ executed' = {}
    /\ UNCHANGED <<cacheVars, df, kpis>>

Next ==
    \/ LoadRetailData \/ CheckLoaded \/ SidebarFilters \/ FilterData
    \/ ExecutiveSnapshot \/ SalesTrend \/ Demographics \/ AdvancedInsights
    \/ AutoInsights \/ Tick \/ Rerun

Spec == Init /\ [][Next]_vars

(* ------------- the script from a given step, on any table -------------- *)
(* The steps after the load are functions of the table they are given.     *)
(* These specifications start a run at one step with the table drawn from  *)
(* a universe of rows that varies the columns the step reads.              *)
MaxDay == 2
MaxCatRows == 3
FilterStamps == {d * TicksPerDay + (d % TicksPerDay) : d \in 0..MaxDay}
FilterUniverse ==
    {RawRow(ts, 1, g, 30, cat, 100, 60) :
        ts \in FilterStamps, g \in {"Female", "Male"}, cat \in {"Beauty", "Clothing"}}

KpiUniverse ==
    {RawRow(0, c, "Male", 30, "Clothing", s, g) :
        c \in {NullId, 1, 2}, s \in {0, 100}, g \in {0, 60}}

TrendUniverse ==
    {RawRow(d * TicksPerDay, 1, "Male", 30, cat, s, 60) :
        d \in 0..6, cat \in {"Beauty", "Clothing"}, s \in {100, 200}}

AgeUniverse ==
    {RawRow(0, 1, "Male", a, "Clothing", s, 60) :
        a \in {0, 18, 25, 26, 56, 100, 101}, s \in {100, 200}}

TopUniverse == {RawRow(0, 1, "Male", 30, "Clothing", 100, c) : c \in {50, 100, 150}}

InsightUniverse ==
    {RawRow(0, 1, "Male", 30, "Clothing", s, c) :
        s \in {0, 10, 20}, c \in {0, 6, 8, 9, 16}}

DefaultRange(rows) == IF rows = <<>> THEN <<>> ELSE <<min_date(rows), max_date(rows)>>

(* a run that has reached step p with the default selection on table rows *)
AtStep(p, rows, done) ==
    /\ InitCommon
    /\ pc = p /\ executed = done
    /\ retail_data = Some(rows) /\ filtered_data = rows
    /\ date_range = DefaultRange(rows)
    /\ selected_categories = category_list(rows)
    /\ selected_genders = gender_list(rows)

InitFilter ==
    /\ InitCommon
    /\ pc = "filter" /\ executed = {} /\ df = None /\ filtered_data = <<>>
    /\ \E raws \in SeqsUpTo(FilterUniverse, MaxRows) : retail_data = Some(Loaded(raws))
    /\ \E a \in 0..MaxDay, b \in 0..MaxDay : a <= b /\ date_range = <<a, b>>
    /\ selected_categories \in SUBSET {"Beauty", "Clothing"}
    /\ selected_genders \in SUBSET {"Female", "Male"}

SpecFilter == InitFilter /\ [][FilterData]_vars

InitKpi ==
    \E raws \in SeqsUpTo(KpiUniverse, MaxRows) :
        /\ AtStep("snapshot", Loaded(raws), {"filter"})
        /\ df \in {None, Some(Loaded(raws))}

NextKpi == CalculateKpis \/ ExecutiveSnapshot
SpecKpi == InitKpi /\ [][NextKpi]_vars

InitTrend ==
    /\ df = None
    /\ \E raws \in SeqsUpTo(TrendUniverse, MaxRows) :
           AtStep("trend", Loaded(raws), {"filter", "snapshot"})

SpecTrend == InitTrend /\ [][SalesTrend]_vars

InitAge ==
    /\ df = None
    /\ \E raws \in SeqsUpTo(AgeUniverse, MaxRows) :
           AtStep("demo", Loaded(raws), {"filter", "snapshot", "trend"})

SpecAge == InitAge /\ [][Demographics]_vars

InitTop ==
    /\ df = None
    /\ \E raws \in SeqsUpTo(TopUniverse, MaxTopRows) :
           AtStep("demo", Loaded(raws), {"filter", "snapshot", "trend"})

SpecTop == InitTop /\ [][Demographics]_vars

InitInsights ==
    /\ df = None
    /\ \E raws \in SeqsUpTo(InsightUniverse, MaxRows) :
           AtStep("insights", Loaded(raws),
                  {"filter", "snapshot", "trend", "demo", "advanced"})

SpecInsights == InitInsights /\ [][AutoInsights]_vars

ReconcileUniverse ==
    {RawRow(0, 1, "Male", 30, cat, s, 60) :
        cat \in {"Beauty", "Clothing", "Electronics"}, s \in {0, 100, 200}}

InitReconcile ==
    /\ df = None
    /\ \E raws \in SeqsUpTo(ReconcileUniverse, MaxCatRows) :
           AtStep("snapshot", Loaded(raws), {"filter"})

NextReconcile == ExecutiveSnapshot \/ SalesTrend
SpecReconcile == InitReconcile /\ [][NextReconcile]_vars

(* ============================== properties ============================= *)

(* C1: after the filter step, filtered_data is exactly the rows of        *)
(* retail_data whose calendar date is in [date_from, date_to] and whose   *)
(* category and gender are selected, in their original order: the j-th    *)
(* row kept is the row at the j-th smallest matching position.            *)
C1_FilterExact ==
    ("filter" \in executed /\ pc = "snapshot") =>
        LET rows == retail_data[1]
            kept == {i \in 1..Len(rows) :
                        /\ date_range[1] <= rows[i].sale_date \div TicksPerDay
                        /\ rows[i].sale_date \div TicksPerDay <= date_range[2]
                        /\ rows[i].category \in selected_categories
                        /\ rows[i].gender \in selected_genders}
        IN  /\ Len(filtered_data) = Cardinality(kept)
            /\ \A j \in 1..Len(filtered_data) :
                   filtered_data[j] =
                       rows[CHOOSE i \in kept : Cardinality({k \in kept : k <= i}) = j]

C1_Witness ==
    /\ "filter" \in executed /\ pc = "snapshot"
    /\ Len(retail_data[1]) = 2 /\ Len(filtered_data) = 1
    /\ filtered_data[1] = retail_data[1][2]
    /\ retail_data[1][1].category = retail_data[1][2].category
    /\ retail_data[1][1].gender = retail_data[1][2].gender

(* C2 as stated: calculate_kpis on an empty dataset returns a KPI set     *)
(* whose total_revenue and unique_customers are 0.                        *)
C2_EmptyGivesZeroKpis ==
    ("calculate_kpis" \in executed /\ df # None /\ df[1] = <<>>) =>
        /\ kpis # None
        /\ kpis[1].total_revenue = 0
        /\ kpis[1].unique_customers = 0

(* C2 amended: calculate_kpis on an empty dataset returns None, no KPI    *)
(* set, and raises no exception.                                          *)
C2_EmptyGivesNone ==
    ("calculate_kpis" \in executed /\ df # None /\ df[1] = <<>>) => kpis = None

C2_Witness == "calculate_kpis" \in executed /\ df = Some(<<>>) /\ kpis = None

(* C3: in calculate_kpis and in the executive snapshot, on a non-empty    *)
(* dataset, profit_margin is 0 when total_revenue is 0, the average        *)
(* revenue per customer is 0 when there is no distinct customer, and both *)
(* ratios are finite.                                                     *)
C3_NoZeroDenominator ==
    /\ ("calculate_kpis" \in executed /\ kpis # None) =>
          /\ IsFinite(kpis[1].profit_margin)
          /\ IsFinite(kpis[1].avg_revenue_per_customer)
          /\ kpis[1].total_revenue = 0 => IsZero(kpis[1].profit_margin)
          /\ kpis[1].unique_customers = 0 => IsZero(kpis[1].avg_revenue_per_customer)
    /\ snapshot # None =>
          /\ IsFinite(snapshot[1].gross_profit_margin)
          /\ IsFinite(snapshot[1].avg_revenue_per_customer)
          /\ snapshot[1].total_revenue = 0 => IsZero(snapshot[1].gross_profit_margin)
          /\ snapshot[1].unique_customers = 0 =>
                 IsZero(snapshot[1].avg_revenue_per_customer)

(* C4: once the load of a run has returned None, the run is stopped with  *)
(* the error on the page and none of the filter, KPI, aggregation, export *)
(* and insight steps has executed.                                        *)
C4_FailedLoadStops ==
    (pc \notin {"load", "check"} /\ retail_data = None) =>
        /\ pc = "stopped"
        /\ "Could not load data" \in shown
        /\ executed \cap Downstream = {}
        /\ filtered_data = <<>> /\ snapshot = None /\ insights = <<>>

C4_Witness ==
    /\ pc = "stopped" /\ retail_data = None
    /\ "Database Connection Failed" \in shown /\ "Could not load data" \in shown
    /\ executed = {}

(* C5: a call of load_retail_data less than 300 seconds after the fetch   *)
(* that filled the cache returns the cached value without a fetch; a call *)
(* with no earlier fetch, or 300 seconds or more after it, fetches; two   *)
(* fetches are never less than 300 seconds apart.                         *)
C5_CacheTtl ==
    [][(pc = "load" /\ pc' = "check") =>
          /\ (lastFetch # -1 /\ clock - lastFetch < 300) =>
                 /\ lastFetch' = lastFetch
                 /\ retail_data' = cache[1].value
                 /\ cache' = cache
          /\ (lastFetch = -1 \/ clock - lastFetch >= 300) => lastFetch' = clock
          /\ (lastFetch # -1 /\ lastFetch' # lastFetch) => lastFetch' - lastFetch >= 300
      ]_vars

C5_Witness ==
    /\ pc = "check" /\ lastFetch >= 300 /\ clock > lastFetch
    /\ retail_data = cache[1].value

(* C6: every record is counted in the bucket its age names: 0..25 in      *)
(* "18-25", 26..35 in "26-35", 36..45 in "36-45", 46..55 in "46-55", 56   *)
(* and above in "55+"; each bucket's sum is the total_sale of its records.*)
C6_Labels == <<"18-25", "26-35", "36-45", "46-55", "55+">>
C6_Bucket(a) ==
    IF a <= 25 THEN 1 ELSE IF a <= 35 THEN 2 ELSE IF a <= 45 THEN 3
    ELSE IF a <= 55 THEN 4 ELSE 5

C6_AgeBuckets ==
    ("demo" \in executed /\ filtered_data # <<>>) =>
        /\ Len(age_sales) = 5
        /\ \A b \in 1..5 :
              LET mine == SelectSeq(filtered_data, LAMBDA r : C6_Bucket(r.age) = b)
              IN  /\ age_sales[b].key = C6_Labels[b]
                  /\ mine # <<>> =>
                         age_sales[b].value = Fin(SumInt(Column(mine, "total_sale")), 1)

(* C7 as stated: top_trans has min(5, |D|) rows in non-increasing profit *)
(* order, bottom_trans has min(5, |D|) rows in non-decreasing profit      *)
(* order, and rows of equal profit are in their order in D.               *)
C7_Pos(t) ==
    CHOOSE i \in 1..Len(filtered_data) :
        filtered_data[i].transaction_id = t.transaction_id

C7_Size == IF Len(filtered_data) < 5 THEN Len(filtered_data) ELSE 5

C7_Ordered ==
    /\ Len(top_trans) = C7_Size
    /\ Len(bottom_trans) = C7_Size
    /\ \A i \in 1..C7_Size, j \in 1..C7_Size : i < j =>
          /\ top_trans[i].profit >= top_trans[j].profit
          /\ bottom_trans[i].profit <= bottom_trans[j].profit

C7_TiesInOrder ==
    \A i \in 1..C7_Size, j \in 1..C7_Size : i < j =>
        /\ top_trans[i].profit = top_trans[j].profit =>
               C7_Pos(top_trans[i]) < C7_Pos(top_trans[j])
        /\ bottom_trans[i].profit = bottom_trans[j].profit =>
               C7_Pos(bottom_trans[i]) < C7_Pos(bottom_trans[j])

C7_TopBottomStable ==
    ("demo" \in executed /\ filtered_data # <<>>) => (C7_Ordered /\ C7_TiesInOrder)

(* C7 amended: the sizes and the profit orders as stated; rows of equal   *)
(* profit are in their order in D when D has more than 5 rows.            *)
C7_TopBottomOrder ==
    ("demo" \in executed /\ filtered_data # <<>>) =>
        /\ C7_Ordered
        /\ Len(filtered_data) > 5 => C7_TiesInOrder

C7_Witness ==
    /\ "demo" \in executed /\ Len(filtered_data) > 5
    /\ Len(top_trans) = 5 /\ Len(bottom_trans) = 5
    /\ top_trans[1].profit > top_trans[2].profit
    /\ top_trans[2].profit = top_trans[3].profit
    /\ filtered_data[1].profit < filtered_data[2].profit
    /\ bottom_trans[4].profit = bottom_trans[5].profit

(* C8: weekday_sales has exactly the 7 entries Monday..Sunday in that     *)
(* order; a weekday with records carries their total_sale sum and a       *)
(* weekday without records is present with a missing value.               *)
C8_WeekdaySeven ==
    ("trend" \in executed /\ filtered_data # <<>>) =>
        /\ Len(weekday_sales) = 7
        /\ [i \in 1..7 |-> weekday_sales[i].key] =
               <<"Monday", "Tuesday", "Wednesday", "Thursday", "Friday",
                 "Saturday", "Sunday">>
        /\ \A i \in 1..7 :
              LET mine == SelectSeq(filtered_data,
                                    LAMBDA r : r.week_day = weekday_sales[i].key)
              IN  weekday_sales[i].value =
                      IF mine = <<>> THEN NaN
                      ELSE Fin(SumInt(Column(mine, "total_sale")), 1)

C8_Witness ==
    /\ "trend" \in executed /\ Len(filtered_data) = 2
    /\ filtered_data[1].week_day = "Sunday" /\ filtered_data[2].week_day = "Sunday"
    /\ Len(weekday_sales) = 7
    /\ weekday_sales[7].value.k = "fin" /\ weekday_sales[1].value = NaN

(* C9: on a non-empty dataset the insights are the four fixed statements, *)
(* then the low-margin warning iff the mean row margin is < 20, the       *)
(* high-margin praise iff it is > 40, and nothing more when it is in      *)
(* [20, 40].  With every total_sale positive the mean is compared in      *)
(* integers: sum_i 100 * profit_i / sale_i against 20 * n and 40 * n,     *)
(* both sides multiplied by the product of the sales.                     *)
RECURSIVE C9_Prod(_)
C9_Prod(s) == IF s = <<>> THEN 1 ELSE s[1] * C9_Prod(Tail(s))

C9_Sales == Column(filtered_data, "total_sale")
C9_AllPositive == \A i \in 1..Len(filtered_data) : filtered_data[i].total_sale > 0
C9_Weighted ==
    SumInt([i \in 1..Len(filtered_data) |->
               100 * filtered_data[i].profit
                   * (C9_Prod(C9_Sales) \div filtered_data[i].total_sale)])
C9_Threshold(c) == c * Len(filtered_data) * C9_Prod(C9_Sales)
C9_Mean == MeanFloat(Column(filtered_data, "profit_margin"))
C9_Low == IF C9_AllPositive THEN C9_Weighted < C9_Threshold(20) ELSE FLess(C9_Mean, 20)
C9_High == IF C9_AllPositive THEN C9_Weighted > C9_Threshold(40)
           ELSE FGreater(C9_Mean, 40)

C9_InsightLines ==
    ("insights" \in executed /\ filtered_data # <<>>) =>
        /\ Len(insights) \in {4, 5}
        /\ [i \in 1..4 |-> insights[i].text] =
               <<"total_revenue", "top_category", "best_day", "avg_margin">>
        /\ (Len(insights) = 5 /\ insights[Len(insights)].text = "low_margin") <=> C9_Low
        /\ (Len(insights) = 5 /\ insights[Len(insights)].text = "high_margin") <=> C9_High
        /\ (~C9_Low /\ ~C9_High) => Len(insights) = 4

C9_Witness ==
    /\ "insights" \in executed /\ Len(filtered_data) = 2
    /\ C9_AllPositive /\ C9_Weighted = C9_Threshold(20)
    /\ filtered_data[1].total_sale = filtered_data[2].total_sale
    /\ filtered_data[1].cogs # filtered_data[2].cogs
    /\ Len(insights) = 4

(* C10: with the default selection (first to last sale date of D, every   *)
(* category of D, every gender of D) the filter returns D itself.         *)
C10_DefaultIsIdentity ==
    ( /\ "filter" \in executed /\ pc = "snapshot"
      /\ retail_data[1] # <<>>
      /\ date_range = <<min_date(retail_data[1]), max_date(retail_data[1])>>
      /\ selected_categories = category_list(retail_data[1])
      /\ selected_genders = gender_list(retail_data[1]) )
    => filtered_data = retail_data[1]

C10_Witness ==
    /\ "filter" \in executed /\ pc = "snapshot"
    /\ Len(retail_data[1]) = 2
    /\ date_range = <<min_date(retail_data[1]), max_date(retail_data[1])>>
    /\ date_range[1] < date_range[2]
    /\ selected_categories = category_list(retail_data[1])
    /\ selected_genders = gender_list(retail_data[1])
    /\ Cardinality(selected_categories) = 2 /\ Cardinality(selected_genders) = 2
    /\ filtered_data = retail_data[1]

(* C11: once the snapshot and the category chart of a run are computed, *)
(* the total_sale values of category_sales add up to the snapshot's     *)
(* total_revenue, which is the sum of total_sale over the rows of D.    *)
C11_CategoryTotal ==
    SumInt([i \in 1..Len(category_sales) |-> category_sales[i].value.n])

C11_CategorySumsReconcile ==
    ("trend" \in executed /\ snapshot # None) =>
        /\ \A i \in 1..Len(category_sales) : category_sales[i].value.k = "fin"
        /\ C11_CategoryTotal = snapshot[1].total_revenue
        /\ C11_CategoryTotal =
               SumInt([i \in 1..Len(filtered_data) |-> filtered_data[i].total_sale])

C11_Witness ==
    /\ "trend" \in executed /\ snapshot # None
    /\ Len(filtered_data) = 3 /\ Len(category_sales) = 2
    /\ category_sales[1].value.n > category_sales[2].value.n
    /\ category_sales[2].value.n > 0
    /\ filtered_data[1].category = filtered_data[3].category
    /\ filtered_data[1].total_sale # filtered_data[3].total_sale
    /\ snapshot[1].total_revenue = 500

====
